---- MODULE Spec2Model ----
(***************************************************************************)
(* pydantic-duality: a canonical model declaration and its three derived   *)
(* variants (request, response, patch request).                            *)
(*                                                                         *)
(* The state is the set of class objects the metaclass has produced: the   *)
(* canonical classes (instances of DualBaseModelMeta) and the variant      *)
(* classes (instances of pydantic's ModelMetaclass), with the attribute    *)
(* slots __request__ / __response__ / __patch_request__ of each.           *)
(***************************************************************************)
EXTENDS Integers, Sequences, FiniteSets, TLC

(***************************************************************************)
(* Bounds of the model.                                                    *)
(***************************************************************************)
MaxClasses == 2
MaxThreads == 2

\* src/pydantic_duality/__init__.py:39-41
REQUEST_ATTR == "__request__"
RESPONSE_ATTR == "__response__"
PATCH_REQUEST_ATTR == "__patch_request__"

Attrs == {REQUEST_ATTR, RESPONSE_ATTR, PATCH_REQUEST_ATTR}

\* The class produced by generate_dual_base_model() is class number 0.
ROOT == 0

(***************************************************************************)
(* Type expressions.  Every expression is a record                         *)
(*    [tag, name, ref, args]                                               *)
(* tag "dual"      a canonical class (instance of DualBaseModelMeta), ref  *)
(* tag "variant"   the class object getattr(ref, name) returned            *)
(* tag "model"     a plain pydantic model (ModelMetaclass, not dual)       *)
(* tag "prim"      int, str, NoneType ...                                  *)
(* tag "fwd"       a string annotation                                     *)
(* tag "literal"   typing.Literal with ref values                          *)
(* tag "meta"      a metadata object inside Annotated (a string, a Field)  *)
(* tag "generic"   types.GenericAlias: list[X], dict[K, V], tuple[X, ...]  *)
(* tag "typing"    typing._GenericAlias: typing.List[X], typing.Dict[K, V] *)
(* tag "union"     typing.Union[...] / typing.Optional[...]                *)
(* tag "annotated" typing.Annotated[args[1], args[2], ...]                 *)
(***************************************************************************)
T(tag, name, ref, args) == [tag |-> tag, name |-> name, ref |-> ref, args |-> args]

Dual(m) == T("dual", "", m, <<>>)
Variant(m, attr) == T("variant", attr, m, <<>>)
PlainModel == T("model", "P", 0, <<>>)
Prim(n) == T("prim", n, 0, <<>>)
IntT == Prim("int")
StrT == Prim("str")
NoneT == Prim("None")
Fwd(n) == T("fwd", n, 0, <<>>)
FwdOptional(n) == T("fwd", n, 1, <<>>)
LiteralT(n) == T("literal", "", n, <<>>)
Meta(n) == T("meta", n, 0, <<>>)
GenericAlias(origin, args) == T("generic", origin, 0, args)
TypingAlias(origin, args) == T("typing", origin, 0, args)
AnnotatedT(args) == T("annotated", "", 0, args)

\* get_origin(annotation), as far as _resolve_annotation and _alter_attrs ask.
get_origin(e) ==
    CASE e.tag = "annotated" -> "Annotated"
      [] e.tag = "union" -> "Union"
      [] e.tag = "literal" -> "Literal"
      [] e.tag \in {"generic", "typing"} -> e.name
      [] OTHER -> "None"

get_args(e) == e.args

RECURSIVE FlattenUnion(_)
\* typing.Union[...] flattens nested unions; the order of members is kept.
FlattenUnion(args) ==
    IF args = <<>> THEN <<>>
    ELSE LET h == Head(args)
             rest == FlattenUnion(Tail(args))
         IN IF h.tag = "union" THEN FlattenUnion(h.args) \o rest ELSE <<h>> \o rest

RECURSIVE Dedupe(_, _)
\* typing.Union[...] drops repeated members, keeping the first occurrence.
Dedupe(args, seen) ==
    IF args = <<>> THEN <<>>
    ELSE IF Head(args) \in seen THEN Dedupe(Tail(args), seen)
         ELSE <<Head(args)>> \o Dedupe(Tail(args), seen \cup {Head(args)})

\* typing.Union.__getitem__(params): a union of one member is that member.
UnionOf(args) ==
    LET flat == Dedupe(FlattenUnion(args), {})
    IN IF Len(flat) = 1 THEN flat[1] ELSE T("union", "", 0, flat)

\* typing.Optional[X] is Union[X, None].
OptionalOf(e) == UnionOf(<<e, NoneT>>)

RECURSIVE _resolve_annotation(_, _)
\* src/pydantic_duality/__init__.py:54-77
_resolve_annotation(annotation, attr) ==
    LET resolved == [i \in 1..Len(get_args(annotation)) |->
                        _resolve_annotation(get_args(annotation)[i], attr)]
    IN CASE annotation.tag = "dual" -> Variant(annotation.ref, attr)
         [] get_origin(annotation) = "Annotated" -> AnnotatedT(resolved)
         [] annotation.tag = "generic" -> GenericAlias(get_origin(annotation), resolved)
         [] annotation.tag \in {"model", "variant"} -> annotation
         [] get_origin(annotation) = "Union" -> UnionOf(resolved)
         [] get_origin(annotation) = "list" -> TypingAlias("list", resolved)
         [] OTHER -> annotation

(***************************************************************************)
(* Class namespaces (the attrs dictionary of a class body).                *)
(*   ann    the __annotations__, in declaration order: <<[name, type]>>    *)
(*   vals   the values assigned to annotated names:                        *)
(*            "PLAIN"        x: T = v                                      *)
(*            "FIELD_UNDEF"  x: T = Field(...)      (no default)           *)
(*            "FIELD_DFLT"   x: T = Field(default=v)                       *)
(*            "NONE"         x: T = None                                   *)
(*            "TAG"          x: Literal[t] = t                             *)
(*   config the extra of model_config / class Config, or "none"            *)
(***************************************************************************)
Namespace(ann, vals, config) == [ann |-> ann, vals |-> vals, config |-> config]

AnnNames(attrs) == {attrs.ann[i].name : i \in 1..Len(attrs.ann)}

\* A variant of lines 44-51 that returns val on both branches, unchanged.
_replace_with_or_none_val(val) == val

\* src/pydantic_duality/__init__.py:44-51.  The branch that copies the
\* FieldInfo and sets its default to None has no return statement: the
\* function returns None there.
_replace_with_or_none(val) ==
    IF val = "FIELD_UNDEF" THEN "NONE" ELSE val

\* src/pydantic_duality/__init__.py:89-105, one annotation
AlterAnnotation(val, attr) ==
    LET r == _resolve_annotation(val, attr)
    IN IF attr # PATCH_REQUEST_ATTR THEN r
       ELSE CASE get_origin(r) = "Annotated" ->
                    AnnotatedT(<<OptionalOf(get_args(r)[1])>> \o Tail(get_args(r)))
              [] r.tag = "fwd" -> FwdOptional(r.name)
              [] get_origin(r) = "Literal" -> IF r.ref = 1 THEN r ELSE OptionalOf(r)
              [] OTHER -> OptionalOf(r)

\* A variant of lines 99-101 that binds no name to its tag value.
TagKeys_none(attrs, attr) == {}

\* src/pydantic_duality/__init__.py:99-101: attrs[key] = get_args(...)[0]
TagKeys(attrs, attr) ==
    IF attr # PATCH_REQUEST_ATTR THEN {}
    ELSE {attrs.ann[i].name : i \in {j \in 1..Len(attrs.ann) :
            LET r == _resolve_annotation(attrs.ann[j].type, attr)
            IN get_origin(r) = "Literal" /\ r.ref = 1}}

\* src/pydantic_duality/__init__.py:80-107
_alter_attrs(attrs, attr) ==
    LET tags == TagKeys(attrs, attr)
    IN Namespace(
         [i \in 1..Len(attrs.ann) |->
            [name |-> attrs.ann[i].name,
             type |-> AlterAnnotation(attrs.ann[i].type, attr)]],
         [k \in DOMAIN attrs.vals \cup tags |->
            IF k \in tags THEN "TAG" ELSE attrs.vals[k]],
         attrs.config)

(***************************************************************************)
(* The validator's class construction (pydantic's ModelMetaclass): the     *)
(* effective config and the field set of a new model class.                *)
(***************************************************************************)
\* The default of a field, from the value its name is bound to in the body.
DefaultOf(attrs, k) ==
    IF k \notin DOMAIN attrs.vals THEN "UNDEF"
    ELSE CASE attrs.vals[k] \in {"PLAIN", "FIELD_DFLT"} -> "DFLT"
           [] attrs.vals[k] = "FIELD_UNDEF" -> "UNDEF"
           [] attrs.vals[k] = "NONE" -> "NULL"
           [] OTHER -> "TAG"

RECURSIVE BasesExtra(_, _)
\* The config of the bases are merged in order: the last base that sets
\* extra wins.
BasesExtra(h, bases) ==
    IF bases = <<>> THEN "unset"
    ELSE LET last == h[bases[Len(bases)]].extra
         IN IF last # "unset" THEN last
            ELSE BasesExtra(h, SubSeq(bases, 1, Len(bases) - 1))

\* Class keyword arguments override the body's model_config, which
\* overrides the bases' config.
ModelExtra(h, bases, attrs, kwargs) ==
    IF kwargs # "none" THEN kwargs
    ELSE IF attrs.config # "none" THEN attrs.config
    ELSE BasesExtra(h, bases)

RECURSIVE BasesFields(_, _)
\* The fields of the bases; for a name several bases define, the first
\* base wins.
BasesFields(h, bases) ==
    IF bases = <<>> THEN <<>>
    ELSE LET first == h[Head(bases)].fields
             rest == BasesFields(h, Tail(bases))
         IN [k \in DOMAIN first \cup DOMAIN rest |->
                IF k \in DOMAIN first THEN first[k] ELSE rest[k]]

OwnFields(attrs) ==
    [k \in AnnNames(attrs) |->
        LET i == CHOOSE j \in 1..Len(attrs.ann) : attrs.ann[j].name = k
        IN [type |-> attrs.ann[i].type, default |-> DefaultOf(attrs, k)]]

ModelFields(h, bases, attrs) ==
    LET own == OwnFields(attrs)
        inherited == BasesFields(h, bases)
    IN [k \in DOMAIN own \cup DOMAIN inherited |->
            IF k \in DOMAIN own THEN own[k] ELSE inherited[k]]

NAME_ATTR == "__name__"

\* ModelMetaclass(name, bases, attrs, **kwargs): the new class object,
\* without the attribute slots the caller sets afterwards.  The class is
\* the one of canonical class m and of variant kind.
ModelMetaclass(h, name, m, kind, bases, attrs, kwargs) ==
    [model |-> m, kind |-> kind, bases |-> bases,
     extra |-> ModelExtra(h, bases, attrs, kwargs),
     fields |-> ModelFields(h, bases, attrs),
     slots |-> [a \in {NAME_ATTR} |-> [k |-> "val", o |-> name]]]

(***************************************************************************)
(* The program state.                                                      *)
(*   classes  the canonical classes, by number: the bases, the body, the   *)
(*            class keyword arguments and the patch_attrs the thunks of    *)
(*            _generate_alternative_classes close over, and the class's    *)
(*            own __request__ slot                                         *)
(*   heap     the model classes ModelMetaclass has produced.  The class    *)
(*            built n-th for variant attr of canonical class m is          *)
(*            <<m, attr, n>>                                               *)
(*   last     the last attribute read a test made and what it returned     *)
(*   threads  the threads reading a lazy attribute, one step at a time     *)
(*   resolving  the annotation a direct call of _resolve_annotation works  *)
(*            on, and its result                                           *)
(*   abc      whether the validator's metaclass checks subclasses and      *)
(*            instances as abc.ABCMeta does, and the two caches ABCMeta    *)
(*            keeps for each class: pairs <<cls, subclass>>                *)
(*   result   the last issubclass or isinstance call, or the last class    *)
(*            statement that raised, and its outcome                       *)
(***************************************************************************)
VARIABLES classes, heap, last, threads, resolving, abc, result

vars == <<classes, heap, last, threads, resolving, abc, result>>

Threads == 1..MaxThreads

\* A missing attribute (AttributeError).
NoObj == <<-2, "none", 0>>
\* A plain pydantic model used as a mixin base: class P(BaseModel): p: int
PLAIN == -1
PlainObj == <<PLAIN, "plain", 0>>

Count(h, m, attr) == Cardinality({o \in DOMAIN h : o[1] = m /\ o[2] = attr})

Slot(k, o) == [k |-> k, o |-> o]

\* A variant of the descriptor that stores nothing.
SetSlot_nothing(h, o, attr, v) == h

\* setattr(o, attr, v): what a cached_classproperty does with the value its
\* function returned, and what lines 115-121 do on a new class.
SetSlot(h, o, attr, v) ==
    [h EXCEPT ![o].slots =
        [a \in DOMAIN h[o].slots \cup {attr} |->
            IF a = attr THEN Slot("val", v) ELSE h[o].slots[a]]]

RECURSIVE Mro(_, _, _)
\* The classes an attribute lookup on o visits: o, then its bases, left to
\* right and depth first.
Mro(h, bases, i) ==
    IF i > Len(bases) THEN <<>>
    ELSE <<bases[i]>> \o Mro(h, h[bases[i]].bases, 1) \o Mro(h, bases, i + 1)

\* The first class of the lookup order that holds attr in its own __dict__.
Definer(h, o, attr) ==
    LET order == Mro(h, <<o>>, 1)
        holders == {i \in 1..Len(order) : attr \in DOMAIN h[order[i]].slots}
    IN IF holders = {} THEN NoObj
       ELSE order[CHOOSE i \in holders : \A j \in holders : i <= j]

RECURSIVE VariantsIn(_)
\* The canonical classes whose variant a resolved annotation refers to.
VariantsIn(e) ==
    IF e.tag = "variant" THEN {e.ref}
    ELSE UNION {VariantsIn(e.args[i]) : i \in 1..Len(e.args)}

ResolvedRefs(attrs, attr) ==
    UNION {VariantsIn(_resolve_annotation(attrs.ann[i].type, attr)) :
             i \in 1..Len(attrs.ann)}

VariantSlots(request_cls) ==
    [a \in Attrs |-> IF a = REQUEST_ATTR THEN Slot("val", request_cls)
                     ELSE Slot("fwd", request_cls)]

RECURSIVE GetObjAttr(_, _, _), GetAttr(_, _, _), Construct(_, _, _)
RECURSIVE ResolveBases(_, _, _, _), ResolveRefs(_, _, _)

\* DualBaseModelMeta.__getattribute__, src/pydantic_duality/__init__.py:276-285
\* The result is the heap after the read and the value read.
GetAttr(h, m, attr) ==
    IF attr = REQUEST_ATTR THEN [h |-> h, v |-> classes[m].request]
    ELSE GetObjAttr(h, classes[m].request, attr)

\* getattr(o, attr) on a model class: a plain value, or a
\* cached_classproperty, which calls its function and stores the result on
\* the class that was read.  src/pydantic_duality/__init__.py:110-124
GetObjAttr(h, o, attr) ==
    LET d == Definer(h, o, attr)
    IN IF d = NoObj THEN [h |-> h, v |-> NoObj]
       ELSE LET s == h[d].slots[attr]
            IN CASE s.k = "val" -> [h |-> h, v |-> s.o]
                 [] s.k = "ctor" ->
                      LET c == Construct(h, h[s.o].model, attr)
                      IN [h |-> SetSlot(c.h, o, attr, c.v), v |-> c.v]
                 [] OTHER ->
                      LET r == GetObjAttr(h, s.o, attr)
                      IN [h |-> SetSlot(r.h, o, attr, r.v), v |-> r.v]

\* tuple(_resolve_annotation(b, attr) for b in bases)
ResolveBases(h, bases, i, attr) ==
    IF i > Len(bases) THEN [h |-> h, v |-> <<>>]
    ELSE LET first == IF bases[i] = PLAIN THEN [h |-> h, v |-> PlainObj]
                      ELSE GetAttr(h, bases[i], attr)
             rest == ResolveBases(first.h, bases, i + 1, attr)
         IN [h |-> rest.h, v |-> <<first.v>> \o rest.v]

\* The getattr(annotation, attr) calls _resolve_annotation makes.
ResolveRefs(h, refs, attr) ==
    IF refs = {} THEN h
    ELSE LET m == CHOOSE x \in refs : TRUE
         IN ResolveRefs(GetAttr(h, m, attr).h, refs \ {m}, attr)

\* A variant in which both lambdas pass **request_kwargs.
ConstructorKwargs_request(c, attr) == c.request_kwargs

\* The keyword arguments the constructor lambdas pass on: **kwargs for the
\* response (line 246), **request_kwargs for the patch request (line 270).
ConstructorKwargs(c, attr) ==
    IF attr = PATCH_REQUEST_ATTR THEN c.request_kwargs ELSE c.kwargs

\* A variant of the constructor that builds no class and hands out the
\* request class, as line 217 does for the root.
Construct_request_cls(h, m, attr) == [h |-> h, v |-> classes[m].request]

\* constructor_wrapper of _lazily_initalize_models with the constructor
\* lambdas of _generate_alternative_classes.
\* src/pydantic_duality/__init__.py:113-122, 242-247, 264-271
Construct(h, m, attr) ==
    LET c == classes[m]
        body == IF attr = PATCH_REQUEST_ATTR THEN c.patch_attrs ELSE c.attrs
        kw == ConstructorKwargs(c, attr)
        b == ResolveBases(h, c.bases, 1, attr)
        h2 == ResolveRefs(b.h, ResolvedRefs(body, attr), attr)
        obj == <<m, attr, Count(h2, m, attr)>>
        cls == [ModelMetaclass(h2, c.name \o c.suffixes[attr], m, attr, b.v,
                               _alter_attrs(body, attr), kw)
                  EXCEPT !.slots = VariantSlots(c.request) @@ @]
    IN [h |-> (obj :> cls) @@ h2, v |-> obj]

(***************************************************************************)
(* The declarations the model draws from.                                  *)
(***************************************************************************)
Extras == {"forbid", "ignore", "allow"}
Configs == {"none"} \cup Extras
FieldValues == {"PLAIN", "FIELD_UNDEF", "FIELD_DFLT"}

\* The annotations that refer to the canonical class n, n not the root.
RefTypes(n) ==
    {Dual(n),
     GenericAlias("list", <<Dual(n)>>),
     TypingAlias("list", <<Dual(n)>>),
     TypingAlias("dict", <<StrT, Dual(n)>>),
     UnionOf(<<Dual(n), IntT>>),
     AnnotatedT(<<Dual(n), Meta("m")>>)}

PlainTypes ==
    {IntT, LiteralT(1), LiteralT(2), Fwd("X"),
     AnnotatedT(<<IntT, Meta("m")>>), AnnotatedT(<<LiteralT(1), Meta("m")>>)}

OneField(name, type, val) ==
    Namespace(<<[name |-> name, type |-> type]>>,
              IF val = "absent" THEN <<>> ELSE [k \in {name} |-> val], "none")

\* The class bodies: no field; one field of each type, without a value; an
\* int or a tag field bound to each kind of value; an int field under each
\* model_config.
Bodies(declared) ==
    {Namespace(<<>>, <<>>, "none")}
    \cup {OneField("a", t, "absent") : t \in PlainTypes}
    \cup {OneField("b", t, "absent") : t \in UNION {RefTypes(d) : d \in declared \ {ROOT}}}
    \cup {OneField("a", t, v) : t \in {IntT, LiteralT(1)}, v \in FieldValues}
    \cup {[OneField("a", IntT, "absent") EXCEPT !.config = c] : c \in Extras}

\* The bases: one canonical class, or one canonical class and the mixin.
BaseLists(declared) ==
    {<<b>> : b \in declared} \cup {<<b, PLAIN>> : b \in declared}

Decl(bases, attrs, kwargs) == [bases |-> bases, attrs |-> attrs, kwargs |-> kwargs]

\* A class keyword argument extra=... comes with a body without config or
\* with the body that sets model_config to allow.
Decls(declared) ==
    {Decl(b, a, "none") : b \in BaseLists(declared), a \in Bodies(declared)}
    \cup {Decl(<<b>>, a, k) :
            b \in declared, k \in Extras,
            a \in {OneField("a", IntT, "absent"),
                   [OneField("a", IntT, "absent") EXCEPT !.config = "allow"]}}

(***************************************************************************)
(* The initial state: the module has been imported, DualBaseModel exists.  *)
(***************************************************************************)
\* The class attribute that holds the suffix of each variant.
SuffixAttr ==
    [a \in Attrs |->
        CASE a = REQUEST_ATTR -> "request_suffix"
          [] a = RESPONSE_ATTR -> "response_suffix"
          [] OTHER -> "patch_request_suffix"]

\* new_class.__request__.request_suffix = request_suffix and the two lines
\* after it, src/pydantic_duality/__init__.py:189-191
StoreSuffixes(h, request_class, suffixes) ==
    [h EXCEPT ![request_class].slots =
        (SuffixAttr[REQUEST_ATTR] :> [k |-> "val", o |-> suffixes[REQUEST_ATTR]])
        @@ (SuffixAttr[RESPONSE_ATTR] :> [k |-> "val", o |-> suffixes[RESPONSE_ATTR]])
        @@ (SuffixAttr[PATCH_REQUEST_ATTR] :>
               [k |-> "val", o |-> suffixes[PATCH_REQUEST_ATTR]])
        @@ @]

\* src/pydantic_duality/__init__.py:195-217.  The result is the two model
\* classes; BaseRequest serves as its own request and patch request.
_generate_base_alternative_classes(m, request_suffix, response_suffix, attrs) ==
    LET BaseRequest == <<m, REQUEST_ATTR, 0>>
        BaseResponse == <<m, RESPONSE_ATTR, 0>>
    IN (BaseRequest :>
           [model |-> m, kind |-> REQUEST_ATTR, bases |-> <<>>,
            extra |-> "forbid", fields |-> <<>>,
            slots |-> [a \in Attrs \cup {NAME_ATTR} |->
                         IF a = NAME_ATTR THEN Slot("val", "Base" \o request_suffix)
                         ELSE IF a = RESPONSE_ATTR THEN Slot("val", BaseResponse)
                         ELSE Slot("val", BaseRequest)]])
       @@ (BaseResponse :>
           [model |-> m, kind |-> RESPONSE_ATTR, bases |-> <<>>,
            extra |-> "ignore", fields |-> <<>>,
            slots |-> [a \in {NAME_ATTR} |-> Slot("val", "Base" \o response_suffix)]])

\* class P(BaseModel): p: int
PlainClass ==
    [model |-> PLAIN, kind |-> "plain", bases |-> <<>>, extra |-> "unset",
     fields |-> [k \in {"p"} |-> [type |-> IntT, default |-> "UNDEF"]],
     slots |-> [a \in {NAME_ATTR} |-> Slot("val", "P")]]

IdleThread == [pc |-> "idle", m |-> 0, attr |-> "", obj |-> NoObj]

\* No direct call of _resolve_annotation is under way.
NotResolving == [e |-> IntT, attr |-> "", out |-> IntT, done |-> FALSE]

\* No read was made yet.
NoRead == [on |-> NoObj, canonical |-> FALSE, attr |-> "", v |-> NoObj, built |-> 0]

\* The default suffixes of generate_dual_base_model, lines 315-317.
DefaultSuffixes ==
    [a \in Attrs |->
        CASE a = REQUEST_ATTR -> "Request"
          [] a = RESPONSE_ATTR -> "Response"
          [] OTHER -> "PatchRequest"]

\* No suffix keyword argument in the class statement.
NoSuffixes == <<>>

\* The __name__ the class statements give: class DualBaseModel (line 321),
\* class M1, class M2, ...
ClassName(m) == IF m = ROOT THEN "DualBaseModel" ELSE "M" \o ToString(m)

\* The root branch of DualBaseModelMeta.__new__ for the class statement
\* class <name of m>(BaseModel, metaclass=DualBaseModelMeta, **suffixes): attrs
\* src/pydantic_duality/__init__.py:167-172 and 189-191: the canonical class
\* and its two model classes.
RootClass(m, attrs, suffixes) ==
    [name |-> ClassName(m), bases |-> <<>>, attrs |-> attrs, kwargs |-> "none",
     suffix_kwargs |-> suffixes, suffixes |-> suffixes,
     request_kwargs |-> "none", patch_attrs |-> attrs,
     request |-> <<m, REQUEST_ATTR, 0>>]

RootModels(m, attrs, suffixes) ==
    StoreSuffixes(
        _generate_base_alternative_classes(
            m, suffixes[REQUEST_ATTR], suffixes[RESPONSE_ATTR], attrs),
        <<m, REQUEST_ATTR, 0>>, suffixes)

\* generate_dual_base_model(base_config), src/pydantic_duality/__init__.py:313-344
\* The class statement of lines 321-342 runs DualBaseModelMeta.__new__ on
\* its root branch, lines 152-172 and 189-191.
generate_dual_base_model(base_config) ==
    LET attrs == Namespace(<<>>, <<>>, base_config)
    IN /\ classes = (ROOT :> RootClass(ROOT, attrs, DefaultSuffixes))
       /\ heap = RootModels(ROOT, attrs, DefaultSuffixes) @@ (PlainObj :> PlainClass)

\* No subclass or instance check was made yet.  inherited: ModelMetaclass
\* has the __subclasscheck__ and __instancecheck__ of abc.ABCMeta, its base;
\* otherwise it sets them to the ones of type.
\* calls counts the checks made.
NoChecks(inherited) ==
    [inherited |-> inherited, cache |-> {}, negative |-> {}, calls |-> 0]

NoResult == [op |-> "none"]

\* The module as imported: DualBaseModel = generate_dual_base_model()
\* (line 359), or a root an application generates with a base_config.
InitWith(base_configs, inherited) ==
    /\ \E base_config \in base_configs : generate_dual_base_model(base_config)
    /\ last = NoRead
    /\ threads = [t \in Threads |-> IdleThread]
    /\ resolving = NotResolving
    /\ \E i \in inherited : abc = NoChecks(i)
    /\ result = NoResult

Init == InitWith({"none", "allow"}, {TRUE})

\* Only the root of line 359.
InitDefault == InitWith({"none"}, {TRUE})

(***************************************************************************)
(* Declaring a class: class M(bases, **kwargs): body                       *)
(***************************************************************************)
\* A variant of lines 230-232 that passes the keyword arguments on as given.
RequestKwargs_as_given(kwargs) == kwargs

\* src/pydantic_duality/__init__.py:230-232
RequestKwargs(kwargs) ==
    IF kwargs # "none" THEN "forbid" ELSE kwargs

\* tuple(_resolve_annotation(b, REQUEST_ATTR) for b in bases): __request__ is
\* read from the canonical class itself, without any construction.
RequestBases(bases) ==
    [i \in 1..Len(bases) |->
        IF bases[i] = PLAIN THEN PlainObj ELSE classes[bases[i]].request]

\* src/pydantic_duality/__init__.py:219-274.  The result is the heap with the
\* request class and the names the two constructor lambdas close over.
_generate_alternative_classes(m, name, bases, attrs, suffixes, kwargs) ==
    LET request_bases == RequestBases(bases)
        request_kwargs == RequestKwargs(kwargs)
        request_class == <<m, REQUEST_ATTR, 0>>
        cls == [ModelMetaclass(heap, name \o suffixes[REQUEST_ATTR], m, REQUEST_ATTR,
                               request_bases,
                               _alter_attrs(attrs, REQUEST_ATTR), request_kwargs)
                  EXCEPT !.slots = [a \in {RESPONSE_ATTR, PATCH_REQUEST_ATTR} |->
                                       Slot("ctor", request_class)] @@ @]
        replaced == [key \in DOMAIN attrs.vals |->
                        IF key \in DOMAIN cls.fields
                        THEN _replace_with_or_none(attrs.vals[key])
                        ELSE attrs.vals[key]]
        added == {key \in AnnNames(attrs) :
                    key \notin DOMAIN replaced /\ key \in DOMAIN cls.fields}
        patch_attrs == Namespace(attrs.ann,
                                 [key \in DOMAIN replaced \cup added |->
                                    IF key \in added THEN "NONE" ELSE replaced[key]],
                                 attrs.config)
    IN [h |-> (request_class :> cls) @@ heap,
        c |-> [name |-> name, bases |-> bases, attrs |-> attrs, kwargs |-> kwargs,
               suffixes |-> suffixes,
               request_kwargs |-> request_kwargs,
               patch_attrs |-> patch_attrs,
               request |-> request_class]]

\* request_suffix or new_class.request_suffix, for each of the three
\* keyword arguments: src/pydantic_duality/__init__.py:173-178.  A keyword
\* argument that was not passed is None; None and "" are falsy.
Suffix(passed, attr, inherited) ==
    IF attr \in DOMAIN passed /\ passed[attr] # "" THEN passed[attr] ELSE inherited

\* new_class.__request__ before the class has a request class of its own:
\* the __request__ of the first canonical base.
InheritedRequest(bases) ==
    classes[bases[CHOOSE i \in 1..Len(bases) :
                     /\ bases[i] # PLAIN
                     /\ \A j \in 1..(i - 1) : bases[j] = PLAIN]].request

\* The else branch of DualBaseModelMeta.__new__, lines 173-191, for class
\* M<m> with the bases d.bases, the keyword arguments suffix_kwargs and
\* d.kwargs and the body d.attrs.
Synthesize(d, suffix_kwargs) ==
    LET m == Cardinality(DOMAIN classes)
        name == ClassName(m)
        suffixes == [a \in Attrs |->
                        Suffix(suffix_kwargs, a,
                               GetObjAttr(heap, InheritedRequest(d.bases),
                                          SuffixAttr[a]).v)]
        g == _generate_alternative_classes(m, name, d.bases, d.attrs, suffixes, d.kwargs)
    IN /\ m <= MaxClasses
       /\ heap' = StoreSuffixes(g.h, g.c.request, suffixes)
       /\ classes' = (m :> ([suffix_kwargs |-> suffix_kwargs] @@ g.c)) @@ classes

\* DualBaseModelMeta.__new__ for a class with a canonical base,
\* src/pydantic_duality/__init__.py:133-193
Meta__new__(d, suffix_kwargs) ==
    /\ Synthesize(d, suffix_kwargs)
    /\ UNCHANGED <<last, threads, resolving, abc, result>>

\* A class statement without suffix keyword arguments.
DeclareClass(d) == Meta__new__(d, NoSuffixes)

Declare == \E d \in Decls(DOMAIN classes) : DeclareClass(d)

\* The declarations of the specifications that follow single reads: an int
\* field, or a field that refers to a canonical class.
CoreDecls(declared) ==
    {Decl(<<b>>, a, "none") :
        b \in declared,
        a \in {OneField("a", IntT, "absent")}
              \cup {OneField("b", Dual(d), "absent") : d \in declared \ {ROOT}}}

DeclareCore == \E d \in CoreDecls(DOMAIN classes) : DeclareClass(d)

(***************************************************************************)
(* Reading __request__, __response__ or __patch_request__ on a canonical   *)
(* class or on one of the model classes.                                   *)
(***************************************************************************)
\* A read of attr on the canonical class m.  With observed, the read and
\* its result are kept in last: the class it was made on, the value and
\* how many classes had been built for that variant before the read.
ReadCanonicalClass(m, attr, observed) ==
    LET r == GetAttr(heap, m, attr)
    IN /\ heap' = r.h
       /\ last' = IF observed
                  THEN [on |-> classes[m].request, canonical |-> TRUE, attr |-> attr,
                        v |-> r.v, built |-> Count(heap, m, attr)]
                  ELSE last
       /\ UNCHANGED <<classes, threads, resolving, abc, result>>

\* A read of attr on the model class o.
ReadModelClass(o, attr, observed) ==
    LET r == GetObjAttr(heap, o, attr)
    IN /\ o # PlainObj
       /\ heap' = r.h
       /\ last' = IF observed
                  THEN [on |-> o, canonical |-> FALSE, attr |-> attr,
                        v |-> r.v, built |-> Count(heap, o[1], attr)]
                  ELSE last
       /\ UNCHANGED <<classes, threads, resolving, abc, result>>

ReadCanonical ==
    \E m \in DOMAIN classes, attr \in Attrs : ReadCanonicalClass(m, attr, FALSE)

Next == Declare \/ ReadCanonical

Spec == Init /\ [][Next]_vars

(***************************************************************************)
(* Reads followed one at a time, on canonical classes and on the model     *)
(* classes, in a single thread.                                            *)
(***************************************************************************)
ObservedReadCanonical ==
    \E m \in DOMAIN classes, attr \in Attrs : ReadCanonicalClass(m, attr, TRUE)

ObservedReadVariant ==
    \E o \in DOMAIN heap, attr \in Attrs : ReadModelClass(o, attr, TRUE)

NextReads == DeclareCore \/ ObservedReadCanonical \/ ObservedReadVariant

SpecReads == InitDefault /\ [][NextReads]_vars

(***************************************************************************)
(* Several threads reading a lazy attribute of a canonical class.  The     *)
(* code between the lookup of the descriptor and the store of the value    *)
(* (lines 110-124) takes no lock: a thread can be preempted before it      *)
(* calls the constructor and before the value it built is stored.          *)
(***************************************************************************)
LazyAttrs == {RESPONSE_ATTR, PATCH_REQUEST_ATTR}

\* The slot of attr in the __dict__ of m's request class.
CacheSlot(h, m, attr) == h[classes[m].request].slots[attr]

\* Thread t evaluates M.attr: the attribute is looked up on the request
\* class; a value is returned as it is, a descriptor is entered.
T_Begin(t, m, attr) ==
    /\ threads[t].pc = "idle"
    /\ LET s == CacheSlot(heap, m, attr)
       IN threads' = [threads EXCEPT ![t] =
            IF s.k = "val" THEN [pc |-> "done", m |-> m, attr |-> attr, obj |-> s.o]
            ELSE [pc |-> "call", m |-> m, attr |-> attr, obj |-> NoObj]]
    /\ UNCHANGED <<classes, heap, last, resolving, abc, result>>

\* The descriptor calls constructor_wrapper (lines 113-122).
T_Call(t) ==
    /\ threads[t].pc = "call"
    /\ LET c == Construct(heap, threads[t].m, threads[t].attr)
       IN /\ heap' = c.h
          /\ threads' = [threads EXCEPT ![t].pc = "store", ![t].obj = c.v]
    /\ UNCHANGED <<classes, last, resolving, abc, result>>

\* The descriptor stores the value on the class and returns it.
T_Store(t) ==
    /\ threads[t].pc = "store"
    /\ heap' = SetSlot(heap, classes[threads[t].m].request, threads[t].attr,
                       threads[t].obj)
    /\ threads' = [threads EXCEPT ![t].pc = "done"]
    /\ UNCHANGED <<classes, last, resolving, abc, result>>

Begin == \E t \in Threads, m \in DOMAIN classes \ {ROOT}, attr \in LazyAttrs :
            T_Begin(t, m, attr)

Call == \E t \in Threads : T_Call(t)

Store == \E t \in Threads : T_Store(t)

NextThreads == DeclareCore \/ Begin \/ Call \/ Store

SpecThreads == InitDefault /\ [][NextThreads]_vars

(***************************************************************************)
(* The validator's parse: VariantClass.model_validate(rawMapping).         *)
(* Raw values are records [k, m, items]:                                   *)
(*   k = "prim"  a number or a string                                      *)
(*   k = "tag"   the value 1 of Literal[1] (also an int)                   *)
(*   k = "null"  None                                                      *)
(*   k = "map"   a mapping, m its keys and values                          *)
(*   k = "coll"  a list or a dict, items its values                        *)
(***************************************************************************)
RV(k, m, items) == [k |-> k, m |-> m, items |-> items]
PrimV == RV("prim", <<>>, <<>>)
TagV == RV("tag", <<>>, <<>>)
NullV == RV("null", <<>>, <<>>)
MapV(m) == RV("map", m, <<>>)
CollV(items) == RV("coll", <<>>, items)

\* The class object an annotation denotes for the validator.  A canonical
\* class left in an annotation validates as its __request__: it forwards
\* every attribute read to it (lines 276-285).
Denoted(h, t) ==
    CASE t.tag = "model" -> PlainObj
      [] t.tag = "dual" -> classes[t.ref].request
      [] t.name = REQUEST_ATTR -> classes[t.ref].request
      [] OTHER -> LET slots == h[classes[t.ref].request].slots
                  IN IF t.name \in DOMAIN slots /\ slots[t.name].k = "val"
                     THEN slots[t.name].o ELSE NoObj

RECURSIVE ValidValue(_, _, _), ValidModel(_, _, _)

\* Whether the validator accepts the raw value x for the annotation t.
ValidValue(h, t, x) ==
    CASE t.tag = "prim" ->
            IF t.name = "None" THEN x.k = "null" ELSE x.k \in {"prim", "tag"}
      [] t.tag = "literal" -> x.k = "tag"
      [] t.tag = "fwd" -> x.k \in {"prim", "tag"} \/ (t.ref = 1 /\ x.k = "null")
      [] t.tag = "union" -> \E i \in 1..Len(t.args) : ValidValue(h, t.args[i], x)
      [] t.tag = "annotated" -> ValidValue(h, t.args[1], x)
      [] t.tag \in {"generic", "typing"} ->
            /\ x.k = "coll"
            /\ \A i \in 1..Len(x.items) : ValidValue(h, t.args[Len(t.args)], x.items[i])
      [] t.tag \in {"dual", "variant", "model"} ->
            /\ x.k = "map"
            /\ Denoted(h, t) \in DOMAIN h
            /\ ValidModel(h, Denoted(h, t), x.m)
      [] OTHER -> FALSE

\* Whether the model class o parses the raw mapping xm: an unrecognized key
\* is an error under extra = "forbid", a missing key is an error for a
\* field without default.
ValidModel(h, o, xm) ==
    /\ h[o].extra = "forbid" => DOMAIN xm \subseteq DOMAIN h[o].fields
    /\ \A f \in DOMAIN h[o].fields :
          IF f \in DOMAIN xm THEN ValidValue(h, h[o].fields[f].type, xm[f])
          ELSE h[o].fields[f].default # "UNDEF"

\* The value of field f on the instance o parses from xm.
ParsedField(h, o, xm, f) ==
    IF f \in DOMAIN xm THEN xm[f]
    ELSE CASE h[o].fields[f].default = "NULL" -> NullV
           [] h[o].fields[f].default = "TAG" -> TagV
           [] OTHER -> PrimV

RECURSIVE GoodValue(_, _, _), GoodMap(_, _, _)

\* A raw value of the shape the annotation t asks for.  A mapping e levels
\* of canonical-model nesting further down carries the unrecognized key
\* "extra"; no mapping does when e < 0.
GoodValue(h, t, e) ==
    CASE t.tag = "prim" -> IF t.name = "None" THEN NullV ELSE PrimV
      [] t.tag = "literal" -> TagV
      [] t.tag = "union" -> GoodValue(h, t.args[1], e)
      [] t.tag = "annotated" -> GoodValue(h, t.args[1], e)
      [] t.tag \in {"generic", "typing"} ->
            CollV(<<GoodValue(h, t.args[Len(t.args)], e)>>)
      [] t.tag \in {"dual", "variant"} -> MapV(GoodMap(h, Denoted(h, t), e))
      [] t.tag = "model" -> MapV(GoodMap(h, Denoted(h, t), -1))
      [] OTHER -> PrimV

\* A raw mapping with a good value for every field of the model class o.
GoodMap(h, o, e) ==
    LET fields == IF o \in DOMAIN h THEN h[o].fields ELSE <<>>
    IN [f \in DOMAIN fields \cup (IF e = 0 THEN {"extra"} ELSE {}) |->
            IF f \in DOMAIN fields THEN GoodValue(h, fields[f].type, e - 1)
            ELSE PrimV]

\* The mapping xm without the key f.
Omit(xm, f) == [k \in DOMAIN xm \ {f} |-> xm[k]]

RECURSIVE RefersTo(_)
\* The canonical classes an annotation refers to, resolved or not.
RefersTo(t) ==
    IF t.tag \in {"dual", "variant"} THEN {t.ref}
    ELSE UNION {RefersTo(t.args[i]) : i \in 1..Len(t.args)}

(***************************************************************************)
(* Resolving one annotation: a direct call _resolve_annotation(e, attr).   *)
(***************************************************************************)
MaxDepth == 2

Atoms == {IntT, PlainModel, LiteralT(1), Fwd("X")} \cup {Dual(n) : n \in 1..MaxClasses}

\* The annotations one constructor application builds over the set S.
Wrap1(S) ==
    UNION {{GenericAlias("list", <<e>>),
            GenericAlias("dict", <<StrT, e>>),
            TypingAlias("list", <<e>>),
            TypingAlias("dict", <<StrT, e>>),
            UnionOf(<<e, NoneT>>),
            AnnotatedT(<<e, Meta("m")>>)} : e \in S}

RECURSIVE TypeExprs(_)
TypeExprs(depth) ==
    IF depth = 0 THEN Atoms
    ELSE TypeExprs(depth - 1) \cup Wrap1(TypeExprs(depth - 1))

StartResolve ==
    /\ resolving.attr = ""
    /\ \E e \in TypeExprs(MaxDepth), attr \in Attrs :
          resolving' = [e |-> e, attr |-> attr, out |-> e, done |-> FALSE]
    /\ UNCHANGED <<classes, heap, last, threads, abc, result>>

Resolve ==
    /\ resolving.attr # ""
    /\ ~resolving.done
    /\ resolving' = [resolving EXCEPT
                        !.out = _resolve_annotation(resolving.e, resolving.attr),
                        !.done = TRUE]
    /\ UNCHANGED <<classes, heap, last, threads, abc, result>>

NextResolve == StartResolve \/ Resolve

SpecResolve == InitDefault /\ [][NextResolve]_vars

(***************************************************************************)
(* Equality and hashing of class objects.  A class object is a model class *)
(* of the heap, or the canonical class m, written Canonical(m).            *)
(***************************************************************************)
Canonical(m) == <<m, "canonical", 0>>

IsDual(x) == x[2] = "canonical"

\* type.__eq__(x, y): True for the same object, NotImplemented otherwise.
type__eq__(x, y) == IF x = y THEN "True" ELSE "NotImplemented"

\* A variant of __eq__ without the else branch of line 297: the metaclass
\* keeps the equality of type.
__eq__of_type(self, o) == type__eq__(self, o)

\* DualBaseModelMeta.__eq__(self, __o), src/pydantic_duality/__init__.py:293-297.
\* self.__request__ == __o compares two model classes, or a model class
\* with itself: both have type.__eq__, so the result is their identity.
__eq__(self, o) ==
    IF IsDual(o) THEN type__eq__(self, o)
    ELSE IF classes[self[1]].request = o THEN "True" ELSE "False"

\* x.__eq__(y) for the class of x.
EqMethod(x, y) == IF IsDual(x) THEN __eq__(x, y) ELSE type__eq__(x, y)

\* The expression x == y: the method of the right operand goes first when
\* its class is a proper subclass of the left operand's class
\* (DualBaseModelMeta is a subclass of ModelMetaclass); the reflected method
\* is tried after NotImplemented; identity is the last resort.
PyEq(x, y) ==
    LET swapped == IsDual(y) /\ ~IsDual(x)
        first == IF swapped THEN EqMethod(y, x) ELSE EqMethod(x, y)
        second == IF swapped THEN EqMethod(x, y) ELSE EqMethod(y, x)
    IN CASE first # "NotImplemented" -> first = "True"
         [] second # "NotImplemented" -> second = "True"
         [] OTHER -> x = y

\* The expression x != y: object.__ne__ inverts __eq__ unless it returned
\* NotImplemented, with the same order of attempts as ==.
PyNe(x, y) ==
    LET swapped == IsDual(y) /\ ~IsDual(x)
        first == IF swapped THEN EqMethod(y, x) ELSE EqMethod(x, y)
        second == IF swapped THEN EqMethod(x, y) ELSE EqMethod(y, x)
    IN CASE first # "NotImplemented" -> first = "False"
         [] second # "NotImplemented" -> second = "False"
         [] OTHER -> x # y

\* DualBaseModelMeta.__hash__, src/pydantic_duality/__init__.py:299-300; the
\* hash of a model class is its identity.
__hash__(x) == IF IsDual(x) THEN classes[x[1]].request ELSE x

\* len({x, y}): two objects are one element when their hashes agree and
\* they compare equal.
SetSize2(x, y) == IF __hash__(x) = __hash__(y) /\ PyEq(x, y) THEN 1 ELSE 2

\* M.request, M.response, M.patchRequest as a read on the canonical class
\* returns them in the current state.
VariantOf(m, attr) == GetAttr(heap, m, attr).v

\* Two declarations with the same bases, body and keyword arguments.
SameDeclaration(m, n) ==
    /\ classes[m].bases = classes[n].bases
    /\ classes[m].attrs = classes[n].attrs
    /\ classes[m].kwargs = classes[n].kwargs

Declared == DOMAIN classes

\* The identity relations between a canonical class and its variants that
\* hold for the root and for every other class.
IdentityOf(m) ==
    /\ PyEq(Canonical(m), VariantOf(m, REQUEST_ATTR))
    /\ PyEq(VariantOf(m, REQUEST_ATTR), Canonical(m))
    /\ __hash__(Canonical(m)) = __hash__(VariantOf(m, REQUEST_ATTR))
    /\ PyNe(Canonical(m), VariantOf(m, RESPONSE_ATTR))
    /\ \A n \in Declared \ {m} : PyNe(Canonical(m), Canonical(n))
    /\ SetSize2(Canonical(m), VariantOf(m, REQUEST_ATTR)) = 1

\* C1 as stated: for every canonical model M, M == M.request in both operand
\* orders, the hashes agree, M != M.response, M != M.patchRequest, M != M2
\* for any other canonical model, and {M, M.request} has one element.
C1_AsStated ==
    \A m \in Declared :
        IdentityOf(m) /\ PyNe(Canonical(m), VariantOf(m, PATCH_REQUEST_ATTR))

\* C1 (amended): the relations of C1 hold for every canonical model other
\* than the root; for the root they hold except that the root's patchRequest
\* is its request variant, so that the root compares equal to it.
C1_Identity ==
    \A m \in Declared :
        /\ IdentityOf(m)
        /\ m # ROOT => PyNe(Canonical(m), VariantOf(m, PATCH_REQUEST_ATTR))
        /\ m = ROOT => PyEq(Canonical(m), VariantOf(m, PATCH_REQUEST_ATTR))

\* Two canonical classes declared with identical fields exist, and one of
\* them has a response built already.
C1_Witness ==
    \E m, n \in Declared \ {ROOT} :
        /\ m # n
        /\ SameDeclaration(m, n)
        /\ classes[m].attrs.ann # <<>>
        /\ Count(heap, m, RESPONSE_ATTR) = 1
        /\ PyNe(Canonical(m), Canonical(n))
        /\ PyEq(VariantOf(m, REQUEST_ATTR), Canonical(m))

\* The three variants of m are three different objects.
PairwiseDistinct(m) ==
    Cardinality({VariantOf(m, attr) : attr \in Attrs}) = 3

\* C2 as stated: for every class created by the metaclass, the root as well
\* as every descendant, request, response and patchRequest are three
\* pairwise distinct objects.
C2_AsStated == \A m \in Declared : PairwiseDistinct(m)

\* C2 (amended): request, response and patchRequest are pairwise distinct
\* objects for every descendant of the root; the root has two variant
\* objects only, its patchRequest being its request.
C2_Distinct ==
    \A m \in Declared :
        /\ m # ROOT => PairwiseDistinct(m)
        /\ m = ROOT =>
             /\ VariantOf(m, PATCH_REQUEST_ATTR) = VariantOf(m, REQUEST_ATTR)
             /\ VariantOf(m, RESPONSE_ATTR) # VariantOf(m, REQUEST_ATTR)

\* A descendant whose response and patchRequest have both been built.
C2_Witness ==
    \E m \in Declared \ {ROOT} :
        /\ Count(heap, m, RESPONSE_ATTR) = 1
        /\ Count(heap, m, PATCH_REQUEST_ATTR) = 1
        /\ PairwiseDistinct(m)

(***************************************************************************)
(* Strictness of the variants.                                             *)
(***************************************************************************)
NonRoot == Declared \ {ROOT}

\* The read of a variant on the canonical class m: the heap after the read
\* and the class object read.
Read(m, attr) == GetAttr(heap, m, attr)

ExtraOf(r) == r.h[r.v].extra

Accepts(r, xm) == ValidModel(r.h, r.v, xm)

\* An input for the variant read by r with the unrecognized key at level e.
Input(r, e) == GoodMap(r.h, r.v, e)

RECURSIVE HasExtra(_)
\* Whether some mapping of the raw value x holds the unrecognized key.
HasExtra(x) ==
    \/ x.k = "map" /\ "extra" \in DOMAIN x.m
    \/ x.k = "map" /\ \E f \in DOMAIN x.m : HasExtra(x.m[f])
    \/ x.k = "coll" /\ \E i \in 1..Len(x.items) : HasExtra(x.items[i])

\* The canonical bases of m.
CanonicalBases(m) ==
    {classes[m].bases[i] : i \in 1..Len(classes[m].bases)} \ {PLAIN}

RECURSIVE Ancestry(_)
\* m and its canonical ancestors, the root included.
Ancestry(m) == {m} \cup UNION {Ancestry(b) : b \in CanonicalBases(m)}

\* The canonical classes the annotations of m's body refer to.
BodyRefs(m) ==
    UNION {RefersTo(classes[m].attrs.ann[i].type) : i \in 1..Len(classes[m].attrs.ann)}

RECURSIVE Reachable(_)
\* The canonical classes a value of m can nest, m and ancestors included.
Reachable(m) ==
    Ancestry(m) \cup UNION {Reachable(n) : n \in UNION {BodyRefs(a) : a \in Ancestry(m)}}

HasConfig(m) == classes[m].attrs.config # "none" \/ classes[m].kwargs # "none"

\* m, its ancestors and the classes its fields nest are declared without
\* any explicit strictness config.
NoExplicitConfig(m) == \A a \in Reachable(m) : ~HasConfig(a)

\* C3 as stated: for every canonical model M declared (with all its
\* ancestors) without explicit strictness config, M.request and
\* M.patchRequest reject an input with an unrecognized field and M.response
\* accepts it, at the top level and at every nesting level of fields whose
\* type refers to another canonical model.
C3_AsStated ==
    \A m \in Declared : NoExplicitConfig(m) =>
        \A e \in 0..MaxClasses :
            LET req == Read(m, REQUEST_ATTR)
                res == Read(m, RESPONSE_ATTR)
                pat == Read(m, PATCH_REQUEST_ATTR)
            IN /\ HasExtra(MapV(Input(req, e))) => ~Accepts(req, Input(req, e))
               /\ HasExtra(MapV(Input(pat, e))) => ~Accepts(pat, Input(pat, e))
               /\ HasExtra(MapV(Input(res, e))) => Accepts(res, Input(res, e))

\* The part of C3 that holds: the unrecognized field at the top level.
C3_TopLevel ==
    \A m \in Declared : NoExplicitConfig(m) =>
        /\ ~Accepts(Read(m, REQUEST_ATTR), Input(Read(m, REQUEST_ATTR), 0))
        /\ ~Accepts(Read(m, PATCH_REQUEST_ATTR), Input(Read(m, PATCH_REQUEST_ATTR), 0))
        /\ Accepts(Read(m, RESPONSE_ATTR), Input(Read(m, RESPONSE_ATTR), 0))

\* The strictness a class keyword argument or the body asks for.
ExplicitExtras(m) == {classes[m].kwargs, classes[m].attrs.config} \ {"none"}

IsTag(t) == get_origin(t) = "Literal" /\ t.ref = 1

\* The field f is declared by m or by a canonical ancestor of m, not only
\* inherited from a plain model among the bases.
CanonicalField(m, f) == \E a \in Ancestry(m) : f \in AnnNames(classes[a].attrs)

FieldsOf(r) == r.h[r.v].fields

Nullable(r, t) == ValidValue(r.h, t, NullV)

\* A complete input for the variant read by r, without the key f.
InputWithout(r, f) == Omit(Input(r, -1), f)

\* C6 as stated: for every non-root M and every field f of M.request that is
\* not a single-valued tag, whatever its declaration shape, the matching
\* field of M.patchRequest is nullable and has default null, so that an
\* input omitting f parses and yields f = null.  (Stated here for the fields
\* the canonical classes declare, which is where the defaults differ.)
C6_AsStated ==
    \A m \in NonRoot :
        LET req == Read(m, REQUEST_ATTR)
            pat == Read(m, PATCH_REQUEST_ATTR)
        IN \A f \in DOMAIN FieldsOf(req) :
              ~IsTag(FieldsOf(req)[f].type) /\ CanonicalField(m, f) =>
              /\ f \in DOMAIN FieldsOf(pat)
              /\ Nullable(pat, FieldsOf(pat)[f].type)
              /\ FieldsOf(pat)[f].default = "NULL"
              /\ Accepts(pat, InputWithout(pat, f))
              /\ ParsedField(pat.h, pat.v, InputWithout(pat, f), f) = NullV

\* C6 (amended): for every non-root M and every field f of M.request that
\* is declared by M or a canonical ancestor and is not a single-valued tag,
\* the matching field of M.patchRequest is nullable and is never required;
\* its default is null when f has no default on M.request, and f's own
\* default otherwise, and an input omitting f parses to that value.  A field
\* that comes from a plain model among the bases is left as it was.
C6_PatchDefaults ==
    \A m \in NonRoot :
        LET req == Read(m, REQUEST_ATTR)
            pat == Read(m, PATCH_REQUEST_ATTR)
        IN \A f \in DOMAIN FieldsOf(req) : ~IsTag(FieldsOf(req)[f].type) =>
              /\ f \in DOMAIN FieldsOf(pat)
              /\ CanonicalField(m, f) =>
                   /\ Nullable(pat, FieldsOf(pat)[f].type)
                   /\ Accepts(pat, InputWithout(pat, f))
                   /\ FieldsOf(req)[f].default = "UNDEF" =>
                        /\ FieldsOf(pat)[f].default = "NULL"
                        /\ ParsedField(pat.h, pat.v, InputWithout(pat, f), f) = NullV
                   /\ FieldsOf(req)[f].default # "UNDEF" =>
                        /\ FieldsOf(pat)[f].default = FieldsOf(req)[f].default
                        /\ ParsedField(pat.h, pat.v, InputWithout(pat, f), f) = PrimV
              /\ ~CanonicalField(m, f) => FieldsOf(pat)[f] = FieldsOf(req)[f]

\* A class with a field bound to a field descriptor without default, and a
\* class with a field that has a plain default, patchRequest built for both.
C6_Witness ==
    /\ \E m \in NonRoot :
          /\ "a" \in DOMAIN classes[m].attrs.vals
          /\ classes[m].attrs.vals["a"] = "FIELD_UNDEF"
          /\ Count(heap, m, PATCH_REQUEST_ATTR) = 1
          /\ heap[<<m, PATCH_REQUEST_ATTR, 0>>].fields["a"].default = "NULL"
    /\ \E m \in NonRoot :
          /\ "a" \in DOMAIN classes[m].attrs.vals
          /\ classes[m].attrs.vals["a"] = "PLAIN"
          /\ classes[m].attrs.ann[1].type = IntT
          /\ Count(heap, m, PATCH_REQUEST_ATTR) = 1
          /\ heap[<<m, PATCH_REQUEST_ATTR, 0>>].fields["a"].default = "DFLT"

\* C7 as stated: a field whose declared type is a single-valued literal
\* stays required and non-nullable on patchRequest: its type is not wrapped
\* as nullable and it gets no default, so an input omitting it is rejected.
C7_AsStated ==
    \A m \in NonRoot :
        LET req == Read(m, REQUEST_ATTR)
            pat == Read(m, PATCH_REQUEST_ATTR)
        IN \A f \in DOMAIN FieldsOf(req) : IsTag(FieldsOf(req)[f].type) =>
              /\ FieldsOf(pat)[f].type = FieldsOf(req)[f].type
              /\ ~Nullable(pat, FieldsOf(pat)[f].type)
              /\ FieldsOf(pat)[f].default = "UNDEF"
              /\ ~Accepts(pat, InputWithout(pat, f))

\* C7 (amended): a field whose declared type is a single-valued literal
\* stays non-nullable on patchRequest, its type is not wrapped and null is
\* rejected; but it is not required: it gets the tag value as its default,
\* so an input omitting it is accepted and yields the tag value.
C7_TagField ==
    \A m \in NonRoot :
        LET req == Read(m, REQUEST_ATTR)
            pat == Read(m, PATCH_REQUEST_ATTR)
        IN \A f \in DOMAIN FieldsOf(req) : IsTag(FieldsOf(req)[f].type) =>
              /\ FieldsOf(pat)[f].type = FieldsOf(req)[f].type
              /\ ~Nullable(pat, FieldsOf(pat)[f].type)
              /\ ~Accepts(pat, (f :> NullV) @@ Input(pat, -1))
              /\ FieldsOf(pat)[f].default = "TAG"
              /\ Accepts(pat, InputWithout(pat, f))
              /\ ParsedField(pat.h, pat.v, InputWithout(pat, f), f) = TagV

\* A class that declares a single-valued literal field without default and
\* whose patchRequest is built.
C7_Witness ==
    \E m \in NonRoot :
        /\ classes[m].attrs.ann # <<>>
        /\ classes[m].attrs.ann[1].type = LiteralT(1)
        /\ classes[m].attrs.vals = <<>>
        /\ Count(heap, m, PATCH_REQUEST_ATTR) = 1
        /\ heap[<<m, PATCH_REQUEST_ATTR, 0>>].fields["a"].default = "TAG"
        /\ heap[<<m, REQUEST_ATTR, 0>>].fields["a"].default = "UNDEF"

(***************************************************************************)
(* The resolver against the transformation it is documented to be.         *)
(***************************************************************************)
RECURSIVE Substituted(_, _)
\* e with every canonical class in a type position, at any depth, replaced
\* by its variant attr, and nothing else changed: generic origins and their
\* spelling, the order of union members and the metadata of Annotated stay.
Substituted(e, attr) ==
    CASE e.tag = "dual" -> Variant(e.ref, attr)
      [] e.tag = "annotated" ->
            AnnotatedT(<<Substituted(e.args[1], attr)>> \o Tail(e.args))
      [] e.tag = "union" ->
            UnionOf([i \in 1..Len(e.args) |-> Substituted(e.args[i], attr)])
      [] e.tag \in {"generic", "typing"} ->
            [e EXCEPT !.args = [i \in 1..Len(e.args) |-> Substituted(e.args[i], attr)]]
      [] OTHER -> e

\* C8 as stated: for every type expression e and target variant V,
\* resolve(e, V) replaces every canonical-model reference at any depth of e
\* (argument of any generic container whatever its origin or spelling, union
\* member, inner type of an annotated expression) by that model's variant V
\* and leaves everything else unchanged; it is the identity on expressions
\* without canonical-model reference.
C8_AsStated ==
    resolving.done =>
        /\ resolving.out = Substituted(resolving.e, resolving.attr)
        /\ RefersTo(resolving.e) = {} => resolving.out = resolving.e

(***************************************************************************)
(* The lazy variants.                                                      *)
(***************************************************************************)
\* In a state: at most one class was built for the variant; a read of it,
\* on the canonical class or on any of its variants, returned that class;
\* once it is built a read returns it and builds nothing.
C9_Cached ==
    \A m \in NonRoot, attr \in LazyAttrs :
        /\ Count(heap, m, attr) <= 1
        /\ last.attr = attr /\ last.on[1] = m =>
              /\ last.v = <<m, attr, 0>>
              /\ Count(heap, m, attr) = 1
              /\ last.built = 0 \/ last.built = 1
        /\ Count(heap, m, attr) = 1 =>
              /\ Read(m, attr) = [h |-> heap, v |-> <<m, attr, 0>>]
              /\ \A o \in DOMAIN heap : o[1] = m =>
                    /\ GetObjAttr(heap, o, attr).v = <<m, attr, 0>>
                    /\ Count(GetObjAttr(heap, o, attr).h, m, attr) = 1

\* In a step: a declaration builds no response and no patch request, of the
\* class declared or of any other class.
C9_NotAtDeclaration ==
    \A m \in DOMAIN classes', attr \in LazyAttrs :
        classes' # classes => Count(heap', m, attr) = Count(heap, m, attr)

\* C9: for every non-root M, in any single-threaded sequence of
\* declarations and accesses, M.response and M.patchRequest are not
\* constructed when M is declared, each is constructed exactly once at its
\* first access, and every later access, on M or through any of M's
\* variants, returns the identical object.
C9_LazyOnce == []C9_Cached /\ [][C9_NotAtDeclaration]_vars

\* A second read of the response, made through a variant of the class,
\* returned the class built by the first read.
C9_Witness ==
    \E m \in NonRoot :
        /\ last.attr = RESPONSE_ATTR
        /\ ~last.canonical
        /\ last.on = <<m, PATCH_REQUEST_ATTR, 0>>
        /\ last.built = 1
        /\ last.v = <<m, RESPONSE_ATTR, 0>>

MaxChain == 3

\* The chains of one to MaxChain accessors.
Chains == UNION {[1..n -> Attrs] : n \in 1..MaxChain}

RECURSIVE ChainFrom(_, _, _)
\* The accessors of chain read one after the other, the first on the model
\* class o, each next one on what the one before returned; NoObj once a
\* read raises AttributeError.
ChainFrom(h, o, chain) ==
    IF chain = <<>> \/ o = NoObj THEN o
    ELSE LET r == GetObjAttr(h, o, Head(chain))
         IN ChainFrom(r.h, r.v, Tail(chain))

\* The chain read starting on the canonical class m.
ChainOn(m, chain) ==
    LET r == GetAttr(heap, m, Head(chain))
    IN ChainFrom(r.h, r.v, Tail(chain))

\* C11 as stated: for every non-root M and every non-empty chain of
\* accessors from {request, response, patchRequest} applied starting at M,
\* the chain terminates and its result is M's own variant named by the last
\* accessor of the chain.
C11_AsStated ==
    \A m \in NonRoot, chain \in Chains :
        ChainOn(m, chain) = VariantOf(m, chain[Len(chain)])

\* The chains that hold: those in which no request accessor is applied to
\* the Request variant.
C11_NoRequestOnRequest ==
    \A m \in NonRoot, chain \in Chains :
        (\A i \in 1..(Len(chain) - 1) :
            ~(chain[i] = REQUEST_ATTR /\ chain[i + 1] = REQUEST_ATTR))
        => ChainOn(m, chain) = VariantOf(m, chain[Len(chain)])

(***************************************************************************)
(* Names.  Class statements that pass a suffix keyword argument, and the   *)
(* __name__ of the classes built from them.                                *)
(***************************************************************************)
SuffixValues == {"", "Req"}

\* No suffix keyword argument, or one of the three with a value.
SuffixKwargs ==
    {NoSuffixes} \cup {[a \in {k} |-> v] : k \in Attrs, v \in SuffixValues}

NamedDecls(declared) ==
    {Decl(<<b>>, OneField("a", IntT, "absent"), "none") : b \in declared}

DeclareNamed ==
    \E d \in NamedDecls(DOMAIN classes), s \in SuffixKwargs : Meta__new__(d, s)

NextNames == DeclareNamed \/ ReadCanonical

SpecNames == InitDefault /\ [][NextNames]_vars

\* cls.__name__ of a model class.
NameOf(h, o) == h[o].slots[NAME_ATTR].o

RECURSIVE DeclaredSuffix(_, _)
\* The suffix the class statement of m passes for attr, or else the one of
\* the nearest class statement above it that passes one.
DeclaredSuffix(m, attr) ==
    IF attr \in DOMAIN classes[m].suffix_kwargs THEN classes[m].suffix_kwargs[attr]
    ELSE DeclaredSuffix(InheritedRequest(classes[m].bases)[1], attr)

\* C12 as stated: the name of each variant of a non-root canonical class is
\* the class's name followed by the suffix the class declares for that
\* kind, whatever string it is, or else by the one of its nearest ancestor.
C12_AsStated ==
    \A m \in NonRoot, attr \in Attrs :
        LET r == Read(m, attr)
        IN NameOf(r.h, r.v) = ClassName(m) \o DeclaredSuffix(m, attr)

\* The same for the classes that neither pass an empty suffix nor have an
\* ancestor that does.
C12_NonEmpty ==
    \A m \in NonRoot, attr \in Attrs :
        LET r == Read(m, attr)
        IN (\A n \in Ancestry(m) \cup {m}, a \in Attrs :
               a \in DOMAIN classes[n].suffix_kwargs => classes[n].suffix_kwargs[a] # "")
           => NameOf(r.h, r.v) = ClassName(m) \o DeclaredSuffix(m, attr)

(***************************************************************************)
(* Calling a class with keyword arguments xm: the canonical class and its *)
(* request class.                                                          *)
(***************************************************************************)
\* The bases of a class object as the interpreter holds them (__bases__),
\* for a canonical class and for a model class.  BaseModel, the base of
\* the root's classes and of the mixin, is left out.
Bases(h, c) ==
    IF c[2] = "canonical"
    THEN [i \in 1..Len(classes[c[1]].bases) |->
             IF classes[c[1]].bases[i] = PLAIN THEN PlainObj
             ELSE Canonical(classes[c[1]].bases[i])]
    ELSE h[c].bases

RECURSIVE Supers(_, _)
\* c and the classes it derives from.
Supers(h, c) ==
    {c} \cup UNION {Supers(h, Bases(h, c)[i]) : i \in 1..Len(Bases(h, c))}

\* type.__subclasscheck__(cls, sub): sub derives from cls.
type__subclasscheck__(h, cls, sub) == cls \in Supers(h, sub)

\* The errors of a ValidationError the model class o raises for xm.
Errors(h, o, xm) ==
    {<<"extra_forbidden", k>> : k \in {x \in DOMAIN xm \ DOMAIN h[o].fields :
                                         h[o].extra = "forbid"}}
    \cup {<<"missing", f>> : f \in {x \in DOMAIN h[o].fields \ DOMAIN xm :
                                       h[o].fields[x].default = "UNDEF"}}
    \cup {<<"invalid", f>> : f \in {x \in DOMAIN h[o].fields \cap DOMAIN xm :
                                       ~ValidValue(h, h[o].fields[x].type, xm[x])}}

\* A call of the model class o with keyword arguments xm: BaseModel.__init__ validates xm and the
\* call returns the instance, or raises the ValidationError titled with
\* the name of o.
ModelCall(h, o, xm) ==
    IF ValidModel(h, o, xm)
    THEN [raised |-> FALSE, type |-> o,
          values |-> [f \in DOMAIN h[o].fields |-> ParsedField(h, o, xm, f)]]
    ELSE [raised |-> TRUE, title |-> NameOf(h, o), errors |-> Errors(h, o, xm)]

\* A variant of lines 338-339 that calls the response class.
__new___response(h, m, xm) ==
    LET r == GetAttr(h, m, RESPONSE_ATTR)
    IN [h |-> r.h, v |-> ModelCall(r.h, r.v, xm)]

\* DualBaseModel.__new__(cls, *args, **kwargs),
\* src/pydantic_duality/__init__.py:338-339
\* The result is the heap after the call and what the call returned or
\* raised.
__new__(h, m, xm) ==
    LET r == GetAttr(h, m, REQUEST_ATTR)
    IN [h |-> r.h, v |-> ModelCall(r.h, r.v, xm)]

\* A call of the canonical class m: type.__call__ calls __new__ and, only when the object it got is
\* an instance of M, M.__init__ on that object, which validates xm again.
TypeCall(h, m, xm) ==
    LET r == __new__(h, m, xm)
    IN IF r.v.raised THEN r.v
       ELSE IF type__subclasscheck__(r.h, Canonical(m), r.v.type)
            THEN ModelCall(r.h, r.v.type, xm)
            ELSE r.v

\* Keyword arguments for a call of the canonical class m: a value for every
\* field, the same with an unrecognized key, with one field left out, and
\* with None for one field.
CallInputs(m) ==
    LET good == GoodMap(heap, classes[m].request, -1)
    IN {good, GoodMap(heap, classes[m].request, 0)}
       \cup {Omit(good, f) : f \in DOMAIN good}
       \cup {[good EXCEPT ![f] = NullV] : f \in DOMAIN good}

\* C13: calling a canonical class gives what calling its __request__ with
\* the same arguments gives: an instance of the request class with the
\* same field values, or the same ValidationError.
C13_Delegates ==
    \A m \in NonRoot :
        \A xm \in CallInputs(m) :
            TypeCall(heap, m, xm) = ModelCall(heap, classes[m].request, xm)

\* A class with a field without default is declared: one call of it returns
\* an instance of its request class and others raise for an unrecognized
\* key and for a missing field.
C13_Witness ==
    \E m \in NonRoot :
        /\ \E xm \in CallInputs(m) :
              /\ ~TypeCall(heap, m, xm).raised
              /\ TypeCall(heap, m, xm).type = classes[m].request
        /\ \E xm \in CallInputs(m), k \in {"extra"} :
              /\ TypeCall(heap, m, xm).raised
              /\ <<"extra_forbidden", k>> \in TypeCall(heap, m, xm).errors
        /\ \E xm \in CallInputs(m), f \in DOMAIN heap[classes[m].request].fields :
              /\ TypeCall(heap, m, xm).raised
              /\ <<"missing", f>> \in TypeCall(heap, m, xm).errors

(***************************************************************************)
(* issubclass and isinstance.  A check runs the __subclasscheck__ or       *)
(* __instancecheck__ of the metaclass of its second argument: the one of   *)
(* DualBaseModelMeta for a canonical class, the one of the validator's     *)
(* ModelMetaclass for a model class.  The operators pass on the heap and   *)
(* the caches as [h, c] and return them with the value as [h, c, v].       *)
(***************************************************************************)
MaxChecks == 2

St(h, c, v) == [h |-> h, c |-> c, v |-> v]

\* obj in a WeakSet of abc: the set holds a weak reference with the hash
\* of obj whose referent is obj or compares equal to it.
InWeakSet(pairs, cls, obj) ==
    \E p \in pairs :
        /\ p[1] = cls
        /\ __hash__(p[2]) = __hash__(obj)
        /\ (p[2] = obj \/ PyEq(p[2], obj))

\* WeakSet.add(obj)
AddWeak(pairs, cls, obj) ==
    IF InWeakSet(pairs, cls, obj) THEN pairs ELSE pairs \cup {<<cls, obj>>}

KindRank(o) ==
    CASE o[2] = REQUEST_ATTR -> 0
      [] o[2] = RESPONSE_ATTR -> 1
      [] OTHER -> 2

Before(a, b) ==
    \/ a[1] < b[1]
    \/ a[1] = b[1] /\ KindRank(a) < KindRank(b)
    \/ a[1] = b[1] /\ KindRank(a) = KindRank(b) /\ a[3] < b[3]

RECURSIVE Ordered(_)
Ordered(S) ==
    IF S = {} THEN <<>>
    ELSE LET first == CHOOSE o \in S : \A p \in S \ {o} : Before(o, p)
         IN <<first>> \o Ordered(S \ {first})

\* cls.__subclasses__() of a model class: the model classes that name it
\* among their bases, by the number of their canonical class.
__subclasses__(h, cls) ==
    Ordered({o \in DOMAIN h : \E i \in 1..Len(h[o].bases) : h[o].bases[i] = cls})

RECURSIVE issubclass(_, _, _), ABCMeta__subclasscheck__(_, _, _)
RECURSIVE AnySubclass(_, _, _), NextSubclass(_, _, _)

\* issubclass(subclass, classes) for a tuple of classes, and the loop of
\* step 6 of ABCMeta.__subclasscheck__: the first True ends it.
AnySubclass(s, subclass, tuple) ==
    IF tuple = <<>> THEN St(s.h, s.c, FALSE)
    ELSE NextSubclass(issubclass(s, subclass, Head(tuple)), subclass, Tail(tuple))

\* The loop after the check of one class returned r.
NextSubclass(r, subclass, rest) ==
    IF r.v THEN r ELSE AnySubclass(r, subclass, rest)

\* The end of ABCMeta.__subclasscheck__: the result r of the loop over the
\* subclasses goes into the cache or into the negative cache.
Remember(r, cls, subclass) ==
    IF r.v
    THEN St(r.h, [r.c EXCEPT !.cache = AddWeak(@, cls, subclass)], TRUE)
    ELSE St(r.h, [r.c EXCEPT !.negative = AddWeak(@, cls, subclass)], FALSE)

\* abc.ABCMeta.__subclasscheck__(cls, subclass): the cache, the negative
\* cache, the classes subclass derives from, then the subclasses of cls.
ABCMeta__subclasscheck__(s, cls, subclass) ==
    IF InWeakSet(s.c.cache, cls, subclass) THEN St(s.h, s.c, TRUE)
    ELSE IF InWeakSet(s.c.negative, cls, subclass) THEN St(s.h, s.c, FALSE)
    ELSE IF type__subclasscheck__(s.h, cls, subclass)
    THEN St(s.h, [s.c EXCEPT !.cache = AddWeak(@, cls, subclass)], TRUE)
    ELSE Remember(AnySubclass(s, subclass, __subclasses__(s.h, cls)), cls, subclass)

\* The read of cls.__patch_request__ after the read of cls.__response__
\* returned r: the tuple of the three classes and the heap after the reads.
WithPatch(r, patch, request) ==
    [h |-> patch.h, v |-> <<request, r.v, patch.v>>]

ThenPatch(r, m) ==
    WithPatch(r, GetAttr(r.h, m, PATCH_REQUEST_ATTR), classes[m].request)

\* The tuple (cls.__request__, cls.__response__, cls.__patch_request__) of
\* lines 303-304 and 308-309: three reads on the canonical class, the
\* first of which returns the class's own __request__ (line 284).
VariantTuple(h, m) == ThenPatch(GetAttr(h, m, RESPONSE_ATTR), m)

\* issubclass(subclass, t.v) in the heap t.h the reads of the tuple left.
SubclassOfTuple(t, c, subclass) == AnySubclass(St(t.h, c, FALSE), subclass, t.v)

\* DualBaseModelMeta.__subclasscheck__, src/pydantic_duality/__init__.py:307-310
__subclasscheck__(s, cls, subclass) ==
    IF type__subclasscheck__(s.h, cls, subclass) THEN St(s.h, s.c, TRUE)
    ELSE SubclassOfTuple(VariantTuple(s.h, cls[1]), s.c, subclass)

\* ModelMetaclass.__subclasscheck__: the one of ABCMeta, or the one of type.
ModelMetaclass__subclasscheck__(s, cls, subclass) ==
    IF s.c.inherited THEN ABCMeta__subclasscheck__(s, cls, subclass)
    ELSE St(s.h, s.c, type__subclasscheck__(s.h, cls, subclass))

\* issubclass(subclass, cls)
issubclass(s, subclass, cls) ==
    IF IsDual(cls) THEN __subclasscheck__(s, cls, subclass)
    ELSE ModelMetaclass__subclasscheck__(s, cls, subclass)

\* abc.ABCMeta.__instancecheck__(cls, instance), for an instance whose
\* class is type: the cache, the negative cache, then __subclasscheck__.
ABCMeta__instancecheck__(s, cls, type) ==
    IF InWeakSet(s.c.cache, cls, type) THEN St(s.h, s.c, TRUE)
    ELSE IF InWeakSet(s.c.negative, cls, type) THEN St(s.h, s.c, FALSE)
    ELSE ABCMeta__subclasscheck__(s, cls, type)

\* isinstance(instance, cls) for a model class cls: True at once when cls
\* is the class of the instance.
ModelMetaclass__instancecheck__(s, cls, type) ==
    IF type = cls THEN St(s.h, s.c, TRUE)
    ELSE IF s.c.inherited THEN ABCMeta__instancecheck__(s, cls, type)
    ELSE St(s.h, s.c, type__subclasscheck__(s.h, cls, type))

RECURSIVE AnyInstance(_, _, _), NextInstance(_, _, _)
\* isinstance(instance, classes) for a tuple of classes.
AnyInstance(s, type, tuple) ==
    IF tuple = <<>> THEN St(s.h, s.c, FALSE)
    ELSE NextInstance(ModelMetaclass__instancecheck__(s, Head(tuple), type),
                      type, Tail(tuple))

NextInstance(r, type, rest) ==
    IF r.v THEN r ELSE AnyInstance(r, type, rest)

\* isinstance(instance, t.v) in the heap t.h the reads of the tuple left.
InstanceOfTuple(t, c, type) == AnyInstance(St(t.h, c, FALSE), type, t.v)

\* DualBaseModelMeta.__instancecheck__, src/pydantic_duality/__init__.py:302-305
__instancecheck__(s, cls, type) ==
    IF type__subclasscheck__(s.h, cls, type) THEN St(s.h, s.c, TRUE)
    ELSE InstanceOfTuple(VariantTuple(s.h, cls[1]), s.c, type)

\* isinstance(instance, cls) for an instance of the model class type.
isinstance(s, type, cls) ==
    IF IsDual(cls) THEN __instancecheck__(s, cls, type)
    ELSE ModelMetaclass__instancecheck__(s, cls, type)

\* The class objects of the program: canonical classes and model classes.
ClassObjects == {Canonical(m) : m \in Declared} \cup DOMAIN heap

\* The classes checked against: those of the declared classes and the
\* unrelated plain model.
CheckedAgainst == {o \in ClassObjects : o[1] # ROOT}

\* The call op(arg, cls) returned r.v and left the heap r.h and the
\* caches r.c.
Checked(op, arg, cls, r) ==
    /\ abc.calls < MaxChecks
    /\ heap' = r.h
    /\ abc' = [r.c EXCEPT !.calls = @ + 1]
    /\ result' = [op |-> op, arg |-> arg, cls |-> cls, v |-> r.v]
    /\ UNCHANGED <<classes, last, threads, resolving>>

\* The test calls issubclass(subclass, cls).
CheckSubclass(subclass, cls) ==
    Checked("issubclass", subclass, cls,
            issubclass(St(heap, abc, FALSE), subclass, cls))

\* The test calls isinstance(x, cls) for an instance x of the model class
\* type.
CheckInstance(type, cls) ==
    Checked("isinstance", type, cls, isinstance(St(heap, abc, FALSE), type, cls))

Subclass == \E subclass \in ClassObjects, cls \in CheckedAgainst :
                CheckSubclass(subclass, cls)

Instance == \E type \in DOMAIN heap, cls \in CheckedAgainst :
                CheckInstance(type, cls)

\* class M<n>(b): a: int, for a declared class b.
DeclarePlainly == \E d \in NamedDecls(DOMAIN classes) : DeclareClass(d)

NextChecks == DeclarePlainly \/ ReadCanonical \/ Subclass \/ Instance

\* The validator's metaclass may have the checks of ABCMeta or of type.
InitChecks == InitWith({"none"}, BOOLEAN)

SpecChecks == InitChecks /\ [][NextChecks]_vars

\* The model class o is a variant of the canonical class m.
IsVariantOf(o, m) == o \in DOMAIN heap /\ o[1] = m

\* The model class o is a variant of m or of a class that derives from m.
DescendsFrom(o, m) == o \in DOMAIN heap /\ o[1] \in Declared /\ m \in Ancestry(o[1])

\* What C14 says of the last check.
SubclassRelation ==
    /\ \A m \in NonRoot :
          (/\ result.op \in {"issubclass", "isinstance"}
           /\ result.cls = Canonical(m)
           /\ DescendsFrom(result.arg, m)) => result.v
    /\ \A m \in NonRoot :
          (/\ result.op = "issubclass"
           /\ IsVariantOf(result.arg, m) /\ IsVariantOf(result.cls, m)
           /\ result.arg[2] # result.cls[2]) => ~result.v
    /\ \A m \in NonRoot :
          (/\ result.op = "issubclass"
           /\ result.arg = PlainObj
           /\ (result.cls = Canonical(m) \/ IsVariantOf(result.cls, m))) => ~result.v

\* C14 as stated: whenever a check was made, every variant of a non-root
\* canonical class M and of its descendants is a subclass of M and its
\* instances are instances of M, no variant of M is a subclass of a variant
\* of M of another kind, and the unrelated plain model is a subclass
\* neither of M nor of a variant of M.
C14_AsStated == result.op # "none" => SubclassRelation

\* The same for the first check made and for a validator whose metaclass
\* has the checks of type.
C14_FirstCheck == (abc.calls = 1 \/ ~abc.inherited) => SubclassRelation

\* What C15 says of the last check.
NotSubclassOfVariant ==
    \A m \in NonRoot :
        /\ (/\ result.op = "issubclass"
            /\ result.arg = Canonical(m)
            /\ IsVariantOf(result.cls, m)) => ~result.v
        /\ (/\ result.op = "issubclass"
            /\ result.arg = classes[m].request
            /\ result.cls = Canonical(m)) => result.v

\* C15 as stated: issubclass(M, V) is False for every variant V of a
\* non-root canonical class M and issubclass(M.__request__, M) is True,
\* whatever checks were made before.
C15_AsStated == result.op # "none" => NotSubclassOfVariant

\* The same for the first check made and for a validator whose metaclass
\* has the checks of type.
C15_FirstCheck == (abc.calls = 1 \/ ~abc.inherited) => NotSubclassOfVariant

(***************************************************************************)
(* Class statements of every kind made with metaclass=DualBaseModelMeta:   *)
(* the ones __new__ refuses, new roots, and classes with bases.            *)
(***************************************************************************)
\* pydantic's BaseModel as a base, and a base that is no model (abc.ABC).
BASEMODEL == -3
NONMODEL == -4

ABSENT == "ABSENT"
NOT_A_DICT == "NOT_A_DICT"

\* A class statement: its bases, its body and its suffix keyword arguments.
Statement(bases, attrs, suffix_kwargs) ==
    [bases |-> bases, attrs |-> attrs, suffix_kwargs |-> suffix_kwargs]

\* the bodies: no model_config, model_config = 1, model_config = {} and
\* model_config = {"extra": "allow"}.
StatementBodies ==
    {Namespace(<<>>, <<>>, c) : c \in {ABSENT, NOT_A_DICT, "none", "allow"}}

\* Any of the three suffix keyword arguments, with the value "Sfx".
StatementSuffixes == UNION {[K -> {"Sfx"}] : K \in SUBSET Attrs}

\* Statements without a model base and root statements, with every body
\* and every choice of suffixes; statements with the plain model or a
\* declared class as a base, without suffixes and with all three.
Statements(declared) ==
    {Statement(b, a, k) :
        b \in {<<>>, <<NONMODEL>>, <<BASEMODEL>>},
        a \in StatementBodies, k \in StatementSuffixes}
    \cup {Statement(b, OneField("a", IntT, "absent"), k) :
            b \in {<<PLAIN>>} \cup BaseLists(declared),
            k \in {NoSuffixes, [a \in Attrs |-> "Sfx"]}}

\* isinstance(b, (ModelMetaclass, DualBaseModelMeta)), line 146
IsModel(b) == b # NONMODEL

HasCanonicalBase(bases) == \E i \in 1..Len(bases) : bases[i] \in Declared

\* The exception DualBaseModelMeta.__new__ raises for the statement st, or
\* "none": src/pydantic_duality/__init__.py:144-178.  On the else branch
\* new_class.request_suffix is read for a suffix that is None; without a
\* canonical base there is no __request__ for line 285 to forward to.
Raised(st) ==
    IF st.bases = <<>> \/ \A i \in 1..Len(st.bases) : ~IsModel(st.bases[i])
    THEN {"TypeError"}
    ELSE IF st.bases = <<BASEMODEL>>
    THEN IF st.attrs.config = ABSENT THEN {"TypeError"}
         ELSE IF st.attrs.config = NOT_A_DICT THEN {"TypeError"}
         ELSE IF \E a \in Attrs : a \notin DOMAIN st.suffix_kwargs THEN {"TypeError"}
         ELSE {"none"}
    ELSE IF ~HasCanonicalBase(st.bases) /\ DOMAIN st.suffix_kwargs # Attrs
    THEN {"AttributeError", "RecursionError"}
    ELSE {"none"}

\* The class statement st raises e: no class is bound.
Refused(st, e) ==
    /\ e \in Raised(st) \ {"none"}
    /\ result' = [op |-> "class", st |-> st, v |-> e,
                  before |-> Cardinality(Declared)]
    /\ UNCHANGED <<classes, heap, last, threads, resolving, abc>>

\* The class statement st binds a new root (lines 167-172, 189-191).
NewRoot(st) ==
    LET m == Cardinality(DOMAIN classes)
    IN /\ "none" \in Raised(st)
       /\ st.bases = <<BASEMODEL>>
       /\ m <= MaxClasses
       /\ classes' = (m :> RootClass(m, st.attrs, st.suffix_kwargs)) @@ classes
       /\ heap' = RootModels(m, st.attrs, st.suffix_kwargs) @@ heap
       /\ result' = [op |-> "class", st |-> st, v |-> "none",
                     before |-> Cardinality(Declared)]
       /\ UNCHANGED <<last, threads, resolving, abc>>

\* The class statement st binds a new class with bases (lines 173-191).
NewClass(st) ==
    /\ "none" \in Raised(st)
    /\ st.bases # <<BASEMODEL>>
    /\ Synthesize(Decl(st.bases, st.attrs, "none"), st.suffix_kwargs)
    /\ result' = [op |-> "class", st |-> st, v |-> "none",
                  before |-> Cardinality(Declared)]
    /\ UNCHANGED <<last, threads, resolving, abc>>

Refuse == \E st \in Statements(Declared) : \E e \in Raised(st) : Refused(st, e)

BindRoot == \E st \in Statements(Declared) : NewRoot(st)

BindClass == \E st \in Statements(Declared) : NewClass(st)

\* DualBaseModelMeta.__new__, src/pydantic_duality/__init__.py:133-193
ClassStatement == Refuse \/ BindRoot \/ BindClass

NextStatements == ClassStatement

SpecStatements == InitDefault /\ [][NextStatements]_vars

\* The cases in which C16 has the statement fail.
MustFail(st) ==
    \/ st.bases = <<>>
    \/ \A i \in 1..Len(st.bases) : ~IsModel(st.bases[i])
    \/ /\ st.bases = <<BASEMODEL>>
       /\ \/ st.attrs.config = ABSENT
          \/ st.attrs.config = NOT_A_DICT
          \/ DOMAIN st.suffix_kwargs # Attrs

\* C16 as stated: a class statement without bases or without a model among
\* its bases, and a root statement without model_config, with a
\* model_config that is no dict or without one of the three suffixes,
\* raises TypeError and binds no class; every other class statement
\* succeeds.
C16_AsStated ==
    result.op = "class" =>
        IF MustFail(result.st)
        THEN result.v = "TypeError" /\ Cardinality(Declared) = result.before
        ELSE result.v = "none" /\ Cardinality(Declared) = result.before + 1

\* The same for the statements with a canonical base or with BaseModel as
\* the only base, or without a model among the bases.
C16_RootsAndDescendants ==
    (/\ result.op = "class"
     /\ \/ MustFail(result.st)
        \/ result.st.bases = <<BASEMODEL>>
        \/ \E i \in 1..Len(result.st.bases) : result.st.bases[i] \in 0..MaxClasses)
    => IF MustFail(result.st)
       THEN result.v = "TypeError" /\ Cardinality(Declared) = result.before
       ELSE result.v = "none" /\ Cardinality(Declared) = result.before + 1

(***************************************************************************)
(* Attribute reads and writes on a canonical class.                        *)
(***************************************************************************)
\* A variant of line 288 that writes to the canonical class itself, as
\* type.__setattr__(self, attr, value) does: only its __request__ is ever
\* read from there (line 284).
__setattr___own(cl, h, m, attr, value) ==
    [classes |-> IF attr = REQUEST_ATTR THEN [cl EXCEPT ![m].request = value] ELSE cl,
     heap |-> h]

\* DualBaseModelMeta.__setattr__(self, attr, value),
\* src/pydantic_duality/__init__.py:287-288
\* The result is the canonical classes and the heap after the write.
__setattr__(cl, h, m, attr, value) ==
    [classes |-> cl, heap |-> SetSlot(h, cl[m].request, attr, value)]

\* The attributes the tests write and the values they bind: a new
\* attribute x and __request__, bound to a class, and __name__.
WrittenValues(attr) ==
    CASE attr = "x" -> {PlainObj, <<ROOT, RESPONSE_ATTR, 0>>}
      [] attr = REQUEST_ATTR -> {PlainObj}
      [] OTHER -> {"Hewwo"}

WrittenAttrs == {"x", REQUEST_ATTR, NAME_ATTR}

\* The writes made so far: the last value written for each class and
\* attribute.
Written == IF result.op = "setattr" THEN result.written ELSE <<>>

\* The test runs M.attr = value on the canonical class m.
Write(m, attr, value) ==
    LET w == __setattr__(classes, heap, m, attr, value)
    IN /\ classes' = w.classes
       /\ heap' = w.heap
       /\ result' = [op |-> "setattr",
                     written |-> [k \in DOMAIN Written \cup {<<m, attr>>} |->
                                     IF k = <<m, attr>> THEN value ELSE Written[k]]]
       /\ UNCHANGED <<last, threads, resolving, abc>>

SetAttr ==
    \E m \in NonRoot, attr \in WrittenAttrs :
        \E value \in WrittenValues(attr) : Write(m, attr, value)

NextAttrs == DeclarePlainly \/ ReadCanonical \/ SetAttr

SpecAttrs == InitDefault /\ [][NextAttrs]_vars

\* The attributes read: the written ones, the two lazy ones and a suffix.
ReadAttrs ==
    (WrittenAttrs \ {REQUEST_ATTR})
    \cup {RESPONSE_ATTR, PATCH_REQUEST_ATTR, SuffixAttr[REQUEST_ATTR]}

\* A read on a canonical class of an attribute other than __request__
\* returns what the read on its request class returns.
ReadsForwarded ==
    \A m \in Declared, attr \in ReadAttrs :
        GetAttr(heap, m, attr) = GetObjAttr(heap, classes[m].request, attr)

\* Every value written on a canonical class is read back on its request
\* class.
WritesForwarded ==
    \A k \in DOMAIN Written :
        GetObjAttr(heap, classes[k[1]].request, k[2]).v = Written[k]

\* No step rebinds the __request__ of a canonical class.
RequestKept ==
    \A m \in Declared : classes'[m].request = classes[m].request

\* C17: a read of an attribute outside the allow-list on a canonical class
\* returns what the same read on its __request__ returns; a write of any
\* attribute, __request__ included, lands on the request class, where the
\* value is read back, and leaves the class's own __request__ as it was.
C17_Forwarding ==
    /\ [](ReadsForwarded /\ WritesForwarded)
    /\ [][RequestKept]_vars

\* A canonical class on which x, __name__ and __request__ were written: its
\* own __request__ is still the request class built for it, and the
\* __request__ read on that class is the written value.
C17_Witness ==
    \E m \in NonRoot :
        /\ {<<m, "x">>, <<m, NAME_ATTR>>, <<m, REQUEST_ATTR>>} \subseteq DOMAIN Written
        /\ classes[m].request = <<m, REQUEST_ATTR, 0>>
        /\ GetObjAttr(heap, classes[m].request, REQUEST_ATTR).v = PlainObj
        /\ GetAttr(heap, m, "x").v = Written[<<m, "x">>]

=============================================================================
